---- MODULE Spec2Model ----
(***************************************************************************)
(* volvooncall-mqtt: the bridge between the Volvo On Call cloud and MQTT.  *)
(*                                                                         *)
(* The sources are stored under names that do not match their content:     *)
(*   src/unnamed/part_000      app.js   (class App, the coordinator)       *)
(*   src/README.md:166-476     lib/car.js (class VocCar, current version)  *)
(*   src/lib/car.js:211-1060   lib/voc.js (VOC, the cloud client)          *)
(*                                                                         *)
(* One step of the model is one macrotask of the node.js event loop: an    *)
(* MQTT event, a timer callback or the arrival of a cloud response,        *)
(* together with the whole chain of promise callbacks (microtasks) it      *)
(* starts, up to the next suspension on I/O or on a timer.                 *)
(***************************************************************************)
EXTENDS Integers, Sequences, FiniteSets, Bags, TLC

VARIABLES
    cars,       \* App.cars: vehicle id -> VocCar object (0: no entry)
    objs,       \* every VocCar object constructed so far, by object number
    subscribed, \* topics the MQTT client is subscribed to
    haDiscovered, \* App.haDiscovered: vehicle ids with discovery published
    flag,       \* VOC._serviceInvocationSuccess, shared by all invocations
    tasks,      \* cloud calls and poll timers in flight (a bag)
    left,       \* environment events (connects, messages, ticks) still to come
    ev          \* what the last step did: calls issued, publications, logs

vars == <<cars, objs, subscribed, haDiscovered, flag, tasks, left, ev>>

----------------------------------------------------------------------------
(* Bounds of the model *)

\* status snapshots the cloud can answer with are 1..MaxStatus
MaxStatus == 2

\* charge locations of the account are 1..MaxLocs
MaxLocs == 1

\* positions the cloud can answer with are BadPosition..MaxPosition
MaxPosition == 2
BadPosition == 1

\* runFor's attempt budget
MaxPolls == 15

----------------------------------------------------------------------------
(* Universes *)

VIds == {"A", "B", "C"}
Commands == {"startCharging", "delayCharging", "lock", "heater"}
hassTopic == <<"homeassistant", "status">>
Caps == {"highVoltageBatterySupported", "carLocatorSupported",
         "remoteHeaterSupported", "preclimatizationSupported"}
LocIds == 1..MaxLocs
\* what the cloud can answer to a position request: BadPosition lacks a usable
\* latitude or longitude, the others are usable
Positions == BadPosition..MaxPosition

Actions == {"startCharging", "delayCharging", "lock", "unlock", "startHeater",
            "stopHeater", "startPreclimatization", "stopPreclimatization"}
refresh == "refreshVehicleStatusFromCar"

\* class fields of VocCar: attributes = {}, status = {}, chargeLocations = {},
\* position = {}, distances = []
NoAttrs == [loaded |-> FALSE, caps |-> {}]
NoStatus == 0
NoPosition == 0

NewCar(v) ==
    [vehicleId |-> v, attributes |-> NoAttrs, status |-> NoStatus,
     chargeLocations |-> {}, position |-> NoPosition, distances |-> <<>>,
     listening |-> FALSE]

----------------------------------------------------------------------------
(* Tasks: the asynchronous operations in flight *)

Task(kind, o, action, origin) ==
    [kind |-> kind, obj |-> o, action |-> action, origin |-> origin,
     counter |-> 0, polls |-> 0, nonTerm |-> 0, term |-> "none",
     serviceId |-> "none"]

Spawn(bag, S) == bag (+) SetToBag(S)
Drop(bag, t) == bag (-) SetToBag({t})
\* mutant of InFlight: while an invocation sits in its poll loop nothing else
\* is served (the loop holds the event loop)
InFlightBehindPolling ==
    LET P == {t \in BagToSet(tasks) : t.kind \in {"wait", "poll"}}
    IN  IF P # {} THEN P ELSE BagToSet(tasks)

InFlight == BagToSet(tasks)

\* the cloud calls a set of freshly spawned tasks stands for (O: the objects)
Call(t, O) == [call |-> t.kind, action |-> t.action,
               vid |-> IF t.obj = 0 THEN "account" ELSE O[t.obj].vehicleId]
CallsOf(S, O) == {Call(t, O) : t \in S}

\* the delay-charging request of a step: the charge location it is addressed
\* to and the delayCharging object of its body ("none": no such request)
NoReq == [location |-> "none", enabled |-> "none",
          startTime |-> "none", stopTime |-> "none"]

NoRes == [action |-> "none", origin |-> "none", term |-> "none",
          outcome |-> "none", polls |-> 0, nonTerm |-> 0]

Quiet(op, o) ==
    [op |-> op, obj |-> o, res |-> NoRes, calls |-> {}, pubs |-> {},
     emitted |-> {}, escaped |-> "none", logs |-> {}, origin |-> "none",
     msg |-> <<>>, data |-> 0, prev |-> 0, req |-> NoReq]

----------------------------------------------------------------------------
(* VocCar: capability checks and readiness *)

\* mutant of isChargingSupported: the wrong attribute is read
isChargingSupportedByLocator(car) == "carLocatorSupported" \in car.attributes.caps

isChargingSupported(car) == "highVoltageBatterySupported" \in car.attributes.caps
\* mutant of isPositionSupported: every vehicle is taken to have a locator
isPositionSupportedAlways(car) == TRUE

isPositionSupported(car) == "carLocatorSupported" \in car.attributes.caps
isRemoteHeaterSupported(car) == "remoteHeaterSupported" \in car.attributes.caps
isPreClimatizationSupported(car) == "preclimatizationSupported" \in car.attributes.caps

\* mutant of isReady: the charge locations are not waited for
isReadyWithoutChargeLocations(car) ==
    car.status # NoStatus /\ car.attributes.loaded

isReady(car) ==
    LET attributesReady == car.attributes.loaded
        statusReady == car.status # NoStatus
        chargeLocationsReady == car.chargeLocations # {}
    IN  statusReady /\ attributesReady
        /\ (chargeLocationsReady \/ ~isChargingSupported(car))

\* a position is usable when latitude and longitude are both truthy
PositionValid(p) == p \notin {NoPosition, BadPosition}

\* Object.keys(self.chargeLocations): the location ids, in ascending order
RECURSIVE keys(_)
keys(S) ==
    IF S = {} THEN <<>>
    ELSE LET least == CHOOSE l \in S : \A k \in S : l <= k
         IN  <<least>> \o keys(S \ {least})

\* mutant of updateDistances: the entries are pushed onto the cached list
updateDistancesPushed(car) ==
    IF ~PositionValid(car.position) THEN car
    ELSE [car EXCEPT !.distances = @ \o keys(car.chargeLocations)]

\* distances after updateDistances: unchanged without a usable position,
\* else a new list with one entry (its chargeLocationId) per cached charge
\* location
updateDistances(car) ==
    IF ~PositionValid(car.position) THEN car
    ELSE [car EXCEPT !.distances = keys(car.chargeLocations)]

distancesEmitted(car) ==
    IF PositionValid(car.position) THEN {"distances_updated"} ELSE {}

----------------------------------------------------------------------------
(* App: publications and Home Assistant discovery *)

\* val: the published snapshot (attributes: 0 for {}, 1 for fetched attributes;
\* status and position: the cached value; charge_locations: the location id)
Pub(car, facet, val) == [vid |-> car.vehicleId, facet |-> facet, val |-> val]

publishAttributes(car) ==
    {Pub(car, "attributes", IF car.attributes.loaded THEN 1 ELSE 0)}
publishStatus(car) == {Pub(car, "status", car.status)}
publishChargeLocations(car) ==
    {Pub(car, "charge_locations", l) : l \in car.chargeLocations}
publishPosition(car) == {Pub(car, "position", car.position)}

hassMqttDiscoveryEnabled == TRUE

\* TRUE when hassMqttDiscovery(car) publishes the discovery configuration
hassMqttDiscovery(car, discovered) ==
    /\ hassMqttDiscoveryEnabled
    /\ car.vehicleId \notin discovered
    /\ isReady(car)

discoveryPubs(car, discovered) ==
    IF hassMqttDiscovery(car, discovered)
    THEN {Pub(car, "discovery", Cardinality(car.chargeLocations))} ELSE {}

\* mutant of discoveredAfter: the vehicle is not entered in the registry
discoveredAfterForgets(car, discovered) == discovered

discoveredAfter(car, discovered) ==
    IF hassMqttDiscovery(car, discovered)
    THEN discovered \cup {car.vehicleId} ELSE discovered

----------------------------------------------------------------------------
(* VocCar: the operations that start a cloud call *)

getVehicleAttributes(o, origin) == {Task("attributes", o, "none", origin)}
getVehicleStatusFromCloud(o, origin) == {Task("status", o, "none", origin)}
\* mutant of getVehicleChargeLocations: the capability is not tested
getVehicleChargeLocationsUntested(o, car, origin) ==
    {Task("chargeLocations", o, "none", origin)}

getVehicleChargeLocations(o, car, origin) ==
    IF ~isChargingSupported(car) THEN {}
    ELSE {Task("chargeLocations", o, "none", origin)}
getVehiclePosition(o, origin) == {Task("position", o, "none", origin)}
\* startCharging, delayCharging, lock, ... and refreshVehicleStatusFromCar:
\* the submission of a service invocation
invoke(o, action, origin) == {Task("submit", o, action, origin)}

\* mutant of construct: the constructor asks for the position as well
constructWithPosition(o) ==
    getVehicleStatusFromCloud(o, "construct") \cup getVehicleAttributes(o, "construct")
        \cup getVehiclePosition(o, "construct")

\* constructor: registerListeners, getVehicleStatusFromCloud, getVehicleAttributes
construct(o) ==
    getVehicleStatusFromCloud(o, "construct") \cup getVehicleAttributes(o, "construct")

\* class VocCar defines no removeEventListeners, and neither does EventEmitter
VocCarHasRemoveEventListeners == FALSE

----------------------------------------------------------------------------
(* Initial state: App constructed, MQTT not yet connected *)

Budget(c, m, k) == [connect |-> c, msg |-> m, tick |-> k]

InitWith(b) ==
    /\ cars = [v \in VIds |-> 0]
    /\ objs = <<>>
    /\ subscribed = {}
    /\ haDiscovered = {}
    /\ flag = FALSE
    /\ tasks = EmptyBag
    /\ left = b
    /\ ev = Quiet("init", 0)

----------------------------------------------------------------------------
(* App: connection and fleet listing *)

VOrder == <<"A", "B", "C">>
Idx(v) == CHOOSE i \in 1..Len(VOrder) : VOrder[i] = v
Rank(v, L) == Cardinality({w \in L : Idx(w) < Idx(v)}) + 1
Known == {v \in VIds : cars[v] # 0}
TopicsOf(L) == {<<"volvooncall", v, c>> : v \in L, c \in Commands}

\* mqtt 'connect': mqttConnected subscribes to the Home Assistant status topic
\* and asks the cloud for the vehicles on the account
Connect ==
    /\ left.connect > 0
    /\ left' = [left EXCEPT !.connect = @ - 1]
    /\ subscribed' = subscribed \cup {hassTopic}
    /\ tasks' = Spawn(tasks, {Task("list", 0, "none", "connect")})
    /\ ev' = [Quiet("connect", 0) EXCEPT
                !.calls = {[call |-> "list", action |-> "none", vid |-> "account"]}]
    /\ UNCHANGED <<cars, objs, haDiscovered, flag>>

\* updateVehicles(vehicles) and the 'vehicles_updated' handler
updateVehicles(t, L) ==
    LET n == Len(objs)
        removed == Known \ L
        \* removedCars.forEach(car => car.removeEventListeners()) throws a
        \* TypeError on the first removed car; listVehiclesOnAccount's catch logs it
        throws == removed # {} /\ ~VocCarHasRemoveEventListeners
        built == [i \in 1..Cardinality(L) |->
                    [NewCar(CHOOSE v \in L : Rank(v, L) = i)
                        EXCEPT !.listening = ~throws]]
        kept == [i \in DOMAIN objs |->
                    IF ~throws /\ objs[i].vehicleId \in removed /\ cars[objs[i].vehicleId] = i
                    THEN [objs[i] EXCEPT !.listening = FALSE] ELSE objs[i]]
        O == kept \o built
        ctor == UNION {construct(n + i) : i \in DOMAIN built}
        pubs == UNION {publishAttributes(built[i]) \cup publishStatus(built[i])
                          \cup publishChargeLocations(built[i])
                          \cup publishPosition(built[i]) : i \in DOMAIN built}
    IN  /\ objs' = O
        /\ cars' = [v \in VIds |-> IF v \in L THEN n + Rank(v, L) ELSE 0]
        /\ tasks' = Spawn(Drop(tasks, t), ctor)
        /\ subscribed' = IF throws THEN subscribed
                         ELSE (subscribed \ TopicsOf(removed)) \cup TopicsOf(L)
        /\ ev' = [Quiet("updateVehicles", 0) EXCEPT
                    !.calls = CallsOf(ctor, O),
                    !.pubs = IF throws THEN {} ELSE pubs,
                    !.logs = IF throws THEN {"Failed to get vehicles"} ELSE {}]
        /\ UNCHANGED <<haDiscovered, flag, left>>

\* the answer to listVehiclesOnAccount: a rejection, or a listing L of Ls
ListResponse(Ls) ==
    \E t \in InFlight :
        /\ t.kind = "list"
        /\ \/ /\ tasks' = Drop(tasks, t)
              /\ ev' = [Quiet("listFailed", 0) EXCEPT !.logs = {"Failed to get vehicles"}]
              /\ UNCHANGED <<cars, objs, subscribed, haDiscovered, flag, left>>
           \/ \E L \in Ls : updateVehicles(t, L)

----------------------------------------------------------------------------
(* VocCar: the answers to the facet fetches *)

\* mutant of setStatus: the answer is stored only while nothing is cached
setStatusOnce(car, data) ==
    [car EXCEPT !.status = IF @ = NoStatus THEN data ELSE @]

\* mutant of setStatus: an answer does not overwrite a higher snapshot
setStatusNewest(car, data) ==
    [car EXCEPT !.status = IF @ > data THEN @ ELSE data]

\* self.status = data
setStatus(car, data) == [car EXCEPT !.status = data]

\* mutant of SetObj: the cached fields live on the class, shared by every
\* VocCar
SetObjShared(o, car) ==
    [i \in DOMAIN objs |->
        [car EXCEPT !.vehicleId = objs[i].vehicleId,
                    !.listening = objs[i].listening]]

SetObj(o, car) == [objs EXCEPT ![o] = car]

\* mutant of Failed: the catch also drops the cached status
FailedResets(t, op) ==
    /\ tasks' = Drop(tasks, t)
    /\ objs' = [objs EXCEPT ![t.obj].status = NoStatus]
    /\ ev' = [Quiet(op, t.obj) EXCEPT !.logs = {op}]
    /\ UNCHANGED <<cars, subscribed, haDiscovered, flag, left>>

\* mutant of Failed: the catch issues the call again
FailedRetries(t, op) ==
    LET again == [t EXCEPT !.origin = "retry"]
    IN  /\ tasks' = Spawn(Drop(tasks, t), {again})
        /\ ev' = [Quiet(op, t.obj) EXCEPT !.logs = {op}, !.calls = CallsOf({again}, objs)]
        /\ UNCHANGED <<cars, objs, subscribed, haDiscovered, flag, left>>

\* a rejected cloud call of a VocCar method: its catch logs, nothing else
Failed(t, op) ==
    /\ tasks' = Drop(tasks, t)
    /\ ev' = [Quiet(op, t.obj) EXCEPT !.logs = {op}]
    /\ UNCHANGED <<cars, objs, subscribed, haDiscovered, flag, left>>

\* getVehicleAttributes: the cloud answers with the capability set caps
AttributesResponse(P) ==
    \E t \in InFlight :
        /\ t.kind = "attributes"
        /\ \/ Failed(t, "update attributes failed")
           \/ \E caps \in P :
                LET car == [objs[t.obj] EXCEPT !.attributes = [loaded |-> TRUE, caps |-> caps]]
                    \* VocCar's listener, then App's (when attached)
                    new == (IF isChargingSupported(car)
                            THEN getVehicleChargeLocations(t.obj, car, "attributes") ELSE {})
                           \cup (IF isPositionSupported(car)
                                 THEN getVehiclePosition(t.obj, "attributes") ELSE {})
                    O == SetObj(t.obj, car)
                IN  /\ objs' = O
                    /\ tasks' = Spawn(Drop(tasks, t), new)
                    /\ haDiscovered' = IF car.listening
                                       THEN discoveredAfter(car, haDiscovered)
                                       ELSE haDiscovered
                    /\ ev' = [Quiet("attributes", t.obj) EXCEPT
                                !.emitted = {"attributes_updated"},
                                !.calls = CallsOf(new, O),
                                !.pubs = IF car.listening
                                         THEN publishAttributes(car)
                                              \cup discoveryPubs(car, haDiscovered)
                                         ELSE {}]
                    /\ UNCHANGED <<cars, subscribed, flag, left>>

\* getVehicleStatusFromCloud: the cloud answers with the snapshot s
StatusResponse ==
    \E t \in InFlight :
        /\ t.kind = "status"
        /\ \/ Failed(t, "status from cloud failed")
           \/ \E s \in 1..MaxStatus :
                LET car == setStatus(objs[t.obj], s)
                IN  /\ objs' = SetObj(t.obj, car)
                    /\ tasks' = Drop(tasks, t)
                    /\ haDiscovered' = IF car.listening
                                       THEN discoveredAfter(car, haDiscovered)
                                       ELSE haDiscovered
                    /\ ev' = [Quiet("status", t.obj) EXCEPT
                                !.emitted = {"status_updated"},
                                !.origin = t.origin,
                                !.data = s,
                                !.prev = objs[t.obj].status,
                                !.pubs = IF car.listening
                                         THEN publishStatus(car)
                                              \cup discoveryPubs(car, haDiscovered)
                                         ELSE {}]
                    /\ UNCHANGED <<cars, subscribed, flag, left>>

\* getVehicleChargeLocations: the cloud answers with the locations locs
ChargeLocationsResponse ==
    \E t \in InFlight :
        /\ t.kind = "chargeLocations"
        /\ \/ Failed(t, "charge locations update failed")
           \/ \E locs \in SUBSET LocIds :
                LET fetched == [objs[t.obj] EXCEPT !.chargeLocations = locs]
                    car == updateDistances(fetched)
                IN  /\ objs' = SetObj(t.obj, car)
                    /\ tasks' = Drop(tasks, t)
                    /\ haDiscovered' = IF car.listening
                                       THEN discoveredAfter(car, haDiscovered)
                                       ELSE haDiscovered
                    /\ ev' = [Quiet("chargeLocations", t.obj) EXCEPT
                                !.emitted = {"charge_locations_updated"}
                                            \cup distancesEmitted(fetched),
                                !.pubs = IF car.listening
                                         THEN publishChargeLocations(car)
                                              \cup discoveryPubs(car, haDiscovered)
                                         ELSE {}]
                    /\ UNCHANGED <<cars, subscribed, flag, left>>

\* getVehiclePosition: the cloud answers with the position p
PositionResponse ==
    \E t \in InFlight :
        /\ t.kind = "position"
        /\ \/ Failed(t, "positions failed")
           \/ \E p \in Positions :
                LET fetched == [objs[t.obj] EXCEPT !.position = p]
                    car == updateDistances(fetched)
                IN  /\ objs' = SetObj(t.obj, car)
                    /\ tasks' = Drop(tasks, t)
                    /\ ev' = [Quiet("position", t.obj) EXCEPT
                                !.emitted = {"position_updated"}
                                            \cup distancesEmitted(fetched),
                                !.pubs = IF car.listening
                                         THEN publishPosition(car) ELSE {}]
                    /\ UNCHANGED <<cars, subscribed, haDiscovered, flag, left>>

----------------------------------------------------------------------------
(* App: the four pollers *)

\* mutant of Fleet: the timers walk every VocCar ever constructed
FleetEver == DOMAIN objs

Fleet == {cars[v] : v \in Known}

\* one tick of a setInterval poller of startPollers
\* mutant of Tick: the status timers also fetch the attributes of vehicles
\* that have none
TickRefetchesAttributes(which) ==
    LET new ==
          CASE which = "statusCar" ->
                 UNION {invoke(o, refresh, "timer") : o \in Fleet}
            [] which = "statusCloud" ->
                 UNION {getVehicleStatusFromCloud(o, "timer") : o \in Fleet}
            [] which = "chargeLocation" ->
                 UNION {getVehicleChargeLocations(o, objs[o], "timer") : o \in Fleet}
            [] which = "position" ->
                 UNION {getVehiclePosition(o, "timer") :
                            o \in {f \in Fleet : isPositionSupported(objs[f])}}
        more == IF which \in {"statusCar", "statusCloud"}
                THEN UNION {getVehicleAttributes(o, "timer") :
                               o \in {f \in Fleet : ~objs[f].attributes.loaded}}
                ELSE {}
    IN  /\ left.tick > 0
        /\ left' = [left EXCEPT !.tick = @ - 1]
        /\ tasks' = Spawn(tasks, new \cup more)
        /\ ev' = [Quiet(which, 0) EXCEPT !.calls = CallsOf(new \cup more, objs)]
        /\ UNCHANGED <<cars, objs, subscribed, haDiscovered, flag>>

Tick(which) ==
    LET new ==
          CASE which = "statusCar" ->
                 UNION {invoke(o, refresh, "timer") : o \in Fleet}
            [] which = "statusCloud" ->
                 UNION {getVehicleStatusFromCloud(o, "timer") : o \in Fleet}
            [] which = "chargeLocation" ->
                 UNION {getVehicleChargeLocations(o, objs[o], "timer") : o \in Fleet}
            [] which = "position" ->
                 UNION {getVehiclePosition(o, "timer") :
                            o \in {f \in Fleet : isPositionSupported(objs[f])}}
    IN  /\ left.tick > 0
        /\ left' = [left EXCEPT !.tick = @ - 1]
        /\ tasks' = Spawn(tasks, new)
        /\ ev' = [Quiet(which, 0) EXCEPT !.calls = CallsOf(new, objs)]
        /\ UNCHANGED <<cars, objs, subscribed, haDiscovered, flag>>

----------------------------------------------------------------------------
(* App: inbound MQTT messages *)

Eff(spawn, logs, escaped) ==
    [spawn |-> spawn, logs |-> logs, escaped |-> escaped, pubs |-> {},
     clear |-> FALSE, req |-> NoReq]

\* self.cars[id].method(): a TypeError when self.cars has no entry for id
OnCar(id, spawn) ==
    IF cars[id] = 0 THEN Eff({}, {}, "TypeError") ELSE Eff(spawn, {}, "none")

AppStartCharging(id, payload) ==
    OnCar(id, invoke(cars[id], "startCharging", "command"))

\* JSON.parse(payload) for the payloads of the model; a key the payload does
\* not have reads as undefined
\*   json        {"chargeLocation":"1","startTime":"00:00","stopTime":"06:00"}
\*   jsonTrue    the same with "delayedCharging":true
\*   jsonFalse   the same with "delayedCharging":false
\*   jsonReadme  {"chargingLocation":"1","startTime":"00:00","endTime":"06:00"}
JSONparse(payload) ==
    LET readme == payload = "jsonReadme"
    IN  [chargeLocation |-> IF readme THEN "undefined" ELSE "1",
         chargingLocation |-> IF readme THEN "1" ELSE "undefined",
         delayedCharging |-> CASE payload = "jsonTrue" -> "true"
                               [] payload = "jsonFalse" -> "false"
                               [] OTHER -> "undefined",
         startTime |-> "00:00",
         stopTime |-> IF readme THEN "undefined" ELSE "06:00",
         endTime |-> IF readme THEN "06:00" ELSE "undefined"]

\* x || true
orTrue(x) == IF x \in {"undefined", "false"} THEN "true" ELSE x

\* VocCar.delayCharging(id, delayedCharging, startTime, stopTime): the PUT on
\* chargeLocations/<id> with body {status, delayCharging: {enabled, startTime,
\* stopTime}}
delayChargingRequest(id, delayedCharging, startTime, stopTime) ==
    [location |-> id, enabled |-> delayedCharging,
     startTime |-> startTime, stopTime |-> stopTime]

\* JSON.parse(payload) comes first and throws a SyntaxError on a payload that
\* is not JSON
AppDelayCharging(id, payload) ==
    IF payload = "notJSON" THEN Eff({}, {}, "SyntaxError")
    ELSE LET params == JSONparse(payload)
             e == OnCar(id, invoke(cars[id], "delayCharging", "command"))
         IN  IF e.escaped # "none" THEN e
             ELSE [e EXCEPT !.req =
                     delayChargingRequest(params.chargeLocation,
                                          orTrue(params.delayedCharging),
                                          params.startTime, params.stopTime)]

setLockState(id, payload) ==
    CASE payload = "UNLOCK" -> OnCar(id, invoke(cars[id], "unlock", "command"))
      [] payload = "LOCK" -> OnCar(id, invoke(cars[id], "lock", "command"))
      [] OTHER -> Eff({}, {"Unrecognized lock state"}, "none")

\* mutant of heaterAction: preclimatization is preferred to the remote heater
heaterActionPreclimatizationFirst(car, heater, preclimatization) ==
    IF isPreClimatizationSupported(car) THEN {preclimatization}
    ELSE IF isRemoteHeaterSupported(car) THEN {heater}
    ELSE {}

heaterAction(car, heater, preclimatization) ==
    IF isRemoteHeaterSupported(car) THEN {heater}
    ELSE IF isPreClimatizationSupported(car) THEN {preclimatization}
    ELSE {}

setHeaterState(id, payload) ==
    CASE payload = "ON" ->
           OnCar(id, UNION {invoke(cars[id], a, "command") :
                    a \in heaterAction(objs[cars[id]], "startHeater", "startPreclimatization")})
      [] payload = "OFF" ->
           OnCar(id, UNION {invoke(cars[id], a, "command") :
                    a \in heaterAction(objs[cars[id]], "stopHeater", "stopPreclimatization")})
      [] OTHER -> Eff({}, {"Unrecognized heater state"}, "none")

\* mutant of republishVehicles: only the status is published again
republishVehiclesStatusOnly == UNION {publishStatus(objs[o]) : o \in Fleet}

republishVehicles ==
    UNION {publishAttributes(objs[o]) \cup publishStatus(objs[o])
             \cup publishChargeLocations(objs[o]) \cup publishPosition(objs[o]) :
           o \in Fleet}

handleMessage(topic, payload) ==
    IF topic = hassTopic
    THEN [Eff({}, {"HA reloaded"}, "none") EXCEPT
            !.clear = TRUE, !.pubs = republishVehicles]
    ELSE LET carId == topic[2]
             command == topic[3]
         IN  CASE command = "startCharging" -> AppStartCharging(carId, payload)
               [] command = "delayCharging" -> AppDelayCharging(carId, payload)
               [] command = "lock" -> setLockState(carId, payload)
               [] command = "heater" -> setHeaterState(carId, payload)
               [] OTHER -> Eff({}, {"Unrecognized command"}, "none")

\* every topic a message can carry
Topics == {hassTopic}
          \cup {<<"volvooncall", v, c>> : v \in VIds, c \in Commands \cup {"unknown"}}

PayloadsFor(topic) ==
    IF topic = hassTopic THEN {"online"}
    ELSE CASE topic[3] = "delayCharging" ->
                {"notJSON", "json", "jsonTrue", "jsonFalse", "jsonReadme"}
           [] topic[3] = "lock" -> {"LOCK", "UNLOCK", "other"}
           [] topic[3] = "heater" -> {"ON", "OFF", "other"}
           [] OTHER -> {""}

\* mqtt 'message': handleMessage(topic, message.toString()), for a message
\* on one of the topics T
Message(T) ==
    \E topic \in T : \E payload \in PayloadsFor(topic) :
        LET e == handleMessage(topic, payload)
        IN  /\ left.msg > 0
            /\ left' = [left EXCEPT !.msg = @ - 1]
            /\ tasks' = Spawn(tasks, e.spawn)
            /\ haDiscovered' = IF e.clear THEN {} ELSE haDiscovered
            /\ ev' = [Quiet("message", 0) EXCEPT
                        !.msg = <<topic, payload>>,
                        !.calls = CallsOf(e.spawn, objs),
                        !.pubs = e.pubs,
                        !.logs = e.logs,
                        !.req = e.req,
                        !.escaped = e.escaped]
            /\ UNCHANGED <<cars, objs, subscribed, flag>>

----------------------------------------------------------------------------
(* VOC: service invocations (runFor, awaitSuccessfulServiceInvocation) *)

\* mutants of IsDone: one of the two terminal statuses is not recognised
IsDoneFailedOnly(response) == response = "Failed"
IsDoneSuccessfulOnly(response) == response = "Successful"

\* the status strings that end runFor's loop
IsDone(response) == response \in {"Successful", "Failed"}

\* mutant of LoopGuard: the budget test is off by one
LoopGuardOffByOne(done, counter) == ~done /\ counter <= MaxPolls

\* while (!done && counter < 15)
LoopGuard(done, counter) == ~done /\ counter < MaxPolls

\* if (counter > 15) console.error("... didn't get a status back ...")
TimeoutLogged(counter) == counter > MaxPolls

\* self._serviceInvocationSuccess after the response has been handled
FlagAfter(response, f) == IF response = "Successful" THEN TRUE ELSE f

\* what a poll can bring: the status of the invocation ("Started" stands for
\* every status that is neither Successful nor Failed) or an error
PollResponses == {"Successful", "Failed", "Started", "error"}

\* mutants of thenOf: every action is followed by a cloud status fetch; every
\* action is followed by a car-side refresh; the refresh does not test success
thenOfAlwaysCloud(o, action, origin, truthy) ==
    LET next == IF truthy THEN "okAction" ELSE "failedAction"
    IN  CASE action = refresh ->
               IF truthy THEN getVehicleStatusFromCloud(o, origin) ELSE {}
          [] OTHER -> getVehicleStatusFromCloud(o, next)

thenOfAlwaysCar(o, action, origin, truthy) ==
    LET next == IF truthy THEN "okAction" ELSE "failedAction"
    IN  CASE action = refresh ->
               IF truthy THEN getVehicleStatusFromCloud(o, origin) ELSE {}
          [] OTHER -> invoke(o, refresh, next)

thenOfRefreshUntested(o, action, origin, truthy) ==
    LET next == IF truthy THEN "okAction" ELSE "failedAction"
    IN  CASE action = refresh -> getVehicleStatusFromCloud(o, origin)
          [] action = "delayCharging" -> getVehicleStatusFromCloud(o, next)
          [] OTHER -> invoke(o, refresh, next)

\* the then-callback of the VocCar method that started the invocation;
\* truthy: the value the invocation resolved with is truthy
thenOf(o, action, origin, truthy) ==
    LET next == IF truthy THEN "okAction" ELSE "failedAction"
    IN  CASE action = refresh ->
               IF truthy THEN getVehicleStatusFromCloud(o, origin) ELSE {}
          [] action = "delayCharging" -> getVehicleStatusFromCloud(o, next)
          [] OTHER -> invoke(o, refresh, next)

Res(t, term, outcome) ==
    [action |-> t.action, origin |-> t.origin, term |-> term,
     outcome |-> outcome, polls |-> t.polls, nonTerm |-> t.nonTerm]

\* the invocation's promise is resolved with outcome: the then-callback runs
\* (t: the task in flight, h: t with the history of its responses)
Resolved(t, h, term, outcome, f, logs) ==
    LET new == thenOf(t.obj, t.action, t.origin, outcome # "false")
    IN  /\ tasks' = Spawn(Drop(tasks, t), new)
        /\ flag' = f
        /\ ev' = [Quiet("resolved", t.obj) EXCEPT
                    !.res = Res(h, term, outcome),
                    !.origin = t.origin,
                    !.calls = CallsOf(new, objs),
                    !.logs = logs]
        /\ UNCHANGED <<cars, objs, subscribed, haDiscovered, left>>

\* mutant of Rejected: a catch on the way returns the reason instead of
\* rejecting, so the promise resolves and the then-callback runs
RejectedSwallowed(t, term) == Resolved(t, t, term, "error", flag, {})

\* the invocation's promise is rejected: the catch of the VocCar method logs
Rejected(t, term) ==
    /\ tasks' = Drop(tasks, t)
    /\ ev' = [Quiet("rejected", t.obj) EXCEPT
                !.res = Res(t, term, "rejected"),
                !.origin = t.origin,
                !.logs = {"failed"}]
    /\ UNCHANGED <<cars, objs, subscribed, haDiscovered, flag, left>>

\* mutant of LoopExit: the flag is read but not reset
LoopExitWithoutReset(t, h, f) ==
    Resolved(t, h,
             IF h.term = "none" THEN "exhausted" ELSE h.term,
             IF f THEN "true" ELSE "false",
             f,
             IF TimeoutLogged(h.counter) THEN {"didn't get a status back"} ELSE {})

\* runFor leaves its loop: the timeout is logged if counter > 15, then
\* awaitSuccessfulServiceInvocation reads the flag and resets it
LoopExit(t, h, f) ==
    Resolved(t, h,
             IF h.term = "none" THEN "exhausted" ELSE h.term,
             IF f THEN "true" ELSE "false",
             FALSE,
             IF TimeoutLogged(h.counter) THEN {"didn't get a status back"} ELSE {})

\* mutant of Iterate: the poll is issued at once, without the interval wait
IterateWithoutWait(t, next, f) ==
    /\ tasks' = Spawn(Drop(tasks, t),
                      {[next EXCEPT !.kind = "poll", !.counter = @ + 1, !.polls = @ + 1]})
    /\ flag' = f
    /\ ev' = [Quiet("iterate", t.obj) EXCEPT !.origin = t.origin]
    /\ UNCHANGED <<cars, objs, subscribed, haDiscovered, left>>

\* mutant of Iterate: the counter starts afresh in every iteration
IterateFromZero(t, next, f) ==
    /\ tasks' = Spawn(Drop(tasks, t),
                      {[next EXCEPT !.kind = "wait", !.counter = 1,
                                    !.polls = 0, !.nonTerm = 0]})
    /\ flag' = f
    /\ ev' = [Quiet("iterate", t.obj) EXCEPT !.origin = t.origin]
    /\ UNCHANGED <<cars, objs, subscribed, haDiscovered, left>>

\* runFor enters an iteration: counter++, then the interval timer is set
Iterate(t, next, f) ==
    /\ tasks' = Spawn(Drop(tasks, t), {[next EXCEPT !.kind = "wait", !.counter = @ + 1]})
    /\ flag' = f
    /\ ev' = [Quiet("iterate", t.obj) EXCEPT !.origin = t.origin]
    /\ UNCHANGED <<cars, objs, subscribed, haDiscovered, left>>

\* runFor is called: done = false, counter = 0, the loop condition is tested
\* (serviceId: whether the id the polls will ask for is defined)
runFor(t, serviceId) ==
    LET h == [t EXCEPT !.serviceId = IF serviceId THEN "present" ELSE "missing"]
    IN  IF LoopGuard(FALSE, t.counter)
        THEN Iterate(t, h, flag)
        ELSE LoopExit(t, h, flag)

\* mutant of awaitSuccessfulServiceInvocation: the service id is not tested
awaitWithoutIdTest(t, serviceId) == runFor(t, serviceId)

\* if (!serviceId) return Promise.reject(...); return runFor(...)
awaitSuccessfulServiceInvocation(t, serviceId) ==
    IF ~serviceId THEN Rejected(t, "noServiceId") ELSE runFor(t, serviceId)

\* mutant of submitted: delayCharging awaits the invocation like every other
\* action, whether or not the answer names a service
submittedAlwaysAwaits(t, serviceId) == awaitSuccessfulServiceInvocation(t, serviceId)

\* the then-callback of VOC.prototype.<action> on the answer to the
\* submission: delayCharging returns the answer itself when it names no
\* service, every other case awaits the invocation
submitted(t, serviceId) ==
    IF t.action = "delayCharging" /\ ~serviceId
    THEN Resolved(t, t, "immediate", "status", flag, {})
    ELSE awaitSuccessfulServiceInvocation(t, serviceId)

\* the answer to the submission (the POST or PUT of the action): an error, or
\* an answer that carries a service id or none
SubmitResponse ==
    \E t \in InFlight :
        /\ t.kind = "submit"
        /\ \/ Rejected(t, "submitError")
           \/ \E serviceId \in BOOLEAN : submitted(t, serviceId)

\* the interval has elapsed: getServiceInvocationStatus is called
WaitElapsed ==
    \E t \in InFlight :
        /\ t.kind = "wait"
        /\ LET p == [t EXCEPT !.kind = "poll", !.polls = @ + 1]
           IN  /\ tasks' = Spawn(Drop(tasks, t), {p})
               /\ ev' = [Quiet("poll", t.obj) EXCEPT
                           !.origin = t.origin,
                           !.calls = CallsOf({p}, objs)]
        /\ UNCHANGED <<cars, objs, subscribed, haDiscovered, flag, left>>

\* the answer to a poll
PollResponse ==
    \E t \in InFlight : \E response \in PollResponses :
        /\ t.kind = "poll"
        /\ IF response = "error"
           THEN Rejected(t, "pollError")
           ELSE LET done == IsDone(response)
                    f == FlagAfter(response, flag)
                    \* history of the invocation: the first terminal status seen
                    \* and the number of non-terminal ones before it
                    seen == IF t.term # "none" THEN t
                            ELSE IF response \in {"Successful", "Failed"}
                                 THEN [t EXCEPT !.term = response]
                                 ELSE [t EXCEPT !.nonTerm = @ + 1]
                IN  IF LoopGuard(done, t.counter)
                    THEN Iterate(t, seen, f)
                    ELSE LoopExit(t, seen, f)

----------------------------------------------------------------------------
(* Specifications *)

Pollers == {"statusCar", "statusCloud", "chargeLocation", "position"}

\* capability sets the cloud can answer with
HeaterProfiles == {{}, {"remoteHeaterSupported"}, {"preclimatizationSupported"}}
PlainProfiles == {{}}

\* Commands and invocations of one vehicle; a message may carry any topic.
\* The initial states are those the
\* bridge is in once the listing of a one-vehicle account has been applied
\* and the two fetches of the constructor have been answered: attributes
\* fetched with one of the capability sets, status fetched (or 0, the fetch
\* having failed), discovery published if the vehicle was ready.
PollMsgs == 1

InitPoll ==
    \E caps \in HeaterProfiles : \E s \in 0..MaxStatus :
        LET car == [NewCar("A") EXCEPT
                      !.listening = TRUE,
                      !.attributes = [loaded |-> TRUE, caps |-> caps],
                      !.status = s]
        IN  /\ cars = [v \in VIds |-> IF v = "A" THEN 1 ELSE 0]
            /\ objs = <<car>>
            /\ subscribed = {hassTopic} \cup TopicsOf({"A"})
            /\ haDiscovered = IF isReady(car) THEN {"A"} ELSE {}
            /\ flag = FALSE
            /\ tasks = EmptyBag
            /\ left = Budget(0, PollMsgs, 0)
            /\ ev = Quiet("init", 0)

NextPoll ==
    \/ Message(Topics)
    \/ SubmitResponse
    \/ WaitElapsed
    \/ PollResponse
    \/ StatusResponse

SpecPoll == InitPoll /\ [][NextPoll]_vars

\* Fleet listings of an account that holds up to MaxFleet of the three
\* vehicles at a time, from the construction of App on; the broker delivers
\* messages on subscribed topics only
FleetConnects == 2
FleetMsgs == 1
MaxFleet == 2

InitFleet == InitWith(Budget(FleetConnects, FleetMsgs, 0))

NextFleet ==
    \/ Connect
    \/ ListResponse({L \in SUBSET VIds : Cardinality(L) <= MaxFleet})
    \/ StatusResponse
    \/ Message(subscribed)

SpecFleet == InitFleet /\ [][NextFleet]_vars

\* Two vehicles side by side: the bridge once the listing {A, B} has been
\* applied, both attribute fetches and the status fetch of A answered, the
\* status fetch of B's constructor still in flight; lock and unlock
\* commands for either vehicle, their invocations, and the status fetches
PairMsgs == 1

PairTopics == {<<"volvooncall", v, "lock">> : v \in {"A", "B"}}

InitPair ==
    LET car(v) == [NewCar(v) EXCEPT
                      !.listening = TRUE,
                      !.attributes = [loaded |-> TRUE, caps |-> {}]]
    IN  /\ cars = [v \in VIds |-> Rank(v, {"A", "B"}) * (IF v = "C" THEN 0 ELSE 1)]
        /\ objs = <<[car("A") EXCEPT !.status = 1], car("B")>>
        /\ subscribed = {hassTopic} \cup TopicsOf({"A", "B"})
        /\ haDiscovered = {}
        /\ flag = FALSE
        /\ tasks = SetToBag(getVehicleStatusFromCloud(2, "construct"))
        /\ left = Budget(0, PairMsgs, 0)
        /\ ev = Quiet("init", 0)

NextPair ==
    \/ Message(PairTopics)
    \/ SubmitResponse
    \/ WaitElapsed
    \/ PollResponse
    \/ StatusResponse

SpecPair == InitPair /\ [][NextPair]_vars

\* The four timers against a fleet that changes: the bridge once a first
\* listing {A} has been applied (the fetches of A's constructor in flight),
\* then reconnections, listings of the vehicles A and B, the answers to
\* the attribute fetches, and the ticks
TickConnects == 1
TickTicks == 1

TickListings == SUBSET {"A", "B"}
TickProfiles == {{}, {"carLocatorSupported", "highVoltageBatterySupported"}}

InitTicks ==
    /\ cars = [v \in VIds |-> IF v = "A" THEN 1 ELSE 0]
    /\ objs = <<[NewCar("A") EXCEPT !.listening = TRUE]>>
    /\ subscribed = {hassTopic} \cup TopicsOf({"A"})
    /\ haDiscovered = {}
    /\ flag = FALSE
    /\ tasks = SetToBag(construct(1))
    /\ left = Budget(TickConnects, 0, TickTicks)
    /\ ev = Quiet("init", 0)

NextTicks ==
    \/ Connect
    \/ ListResponse(TickListings)
    \/ AttributesResponse(TickProfiles)
    \/ \E which \in Pollers : Tick(which)

SpecTicks == InitTicks /\ [][NextTicks]_vars

\* Two invocations at once on the one VOC client: the statusCar timer has
\* started a car-side refresh of A, and a lock command has been received for
\* A or for B; both submissions are in flight
InitShared ==
    LET car(v) == [NewCar(v) EXCEPT
                      !.listening = TRUE,
                      !.status = 1,
                      !.attributes = [loaded |-> TRUE, caps |-> {}]]
    IN  /\ cars = [v \in VIds |-> Rank(v, {"A", "B"}) * (IF v = "C" THEN 0 ELSE 1)]
        /\ objs = <<car("A"), car("B")>>
        /\ subscribed = {hassTopic} \cup TopicsOf({"A", "B"})
        /\ haDiscovered = {}
        /\ flag = FALSE
        /\ \E o \in {1, 2} :
              tasks = SetToBag(invoke(1, refresh, "timer")
                               \cup invoke(o, "lock", "command"))
        /\ left = Budget(0, 0, 0)
        /\ ev = Quiet("init", 0)

NextShared ==
    \/ SubmitResponse
    \/ WaitElapsed
    \/ PollResponse
    \/ StatusResponse

SpecShared == InitShared /\ [][NextShared]_vars

\* the same, every cloud call answered in the end and every interval timer
\* firing
SpecSharedLive ==
    /\ SpecShared
    /\ WF_vars(SubmitResponse)
    /\ WF_vars(WaitElapsed)
    /\ WF_vars(PollResponse)
    /\ WF_vars(StatusResponse)

\* The dispatch of heater and delayCharging commands of one vehicle, for
\* every combination of the two heater capabilities and for a vehicle whose
\* attributes have not been fetched (the fetch has failed); the status fetch
\* of the constructor has been answered
CmdMsgs == 1

CmdProfiles == SUBSET {"remoteHeaterSupported", "preclimatizationSupported"}
CmdTopics == {<<"volvooncall", "A", c>> : c \in {"heater", "delayCharging"}}

InitCmd ==
    \E attributes \in {NoAttrs} \cup {[loaded |-> TRUE, caps |-> c] : c \in CmdProfiles} :
        LET car == [NewCar("A") EXCEPT
                      !.listening = TRUE,
                      !.attributes = attributes,
                      !.status = 1]
        IN  /\ cars = [v \in VIds |-> IF v = "A" THEN 1 ELSE 0]
            /\ objs = <<car>>
            /\ subscribed = {hassTopic} \cup TopicsOf({"A"})
            /\ haDiscovered = IF isReady(car) THEN {"A"} ELSE {}
            /\ flag = FALSE
            /\ tasks = EmptyBag
            /\ left = Budget(0, CmdMsgs, 0)
            /\ ev = Quiet("init", 0)

NextCmd ==
    \/ Message(CmdTopics)
    \/ SubmitResponse
    \/ WaitElapsed
    \/ PollResponse
    \/ StatusResponse

SpecCmd == InitCmd /\ [][NextCmd]_vars

\* The cached facets of the vehicle of a one-vehicle account. The initial
\* state is the one the bridge is in once the listing {A} has been applied:
\* the vehicle constructed and listened to, its command topics subscribed,
\* the two fetches of its constructor in flight. From there on: the answers
\* to the fetches, the cascade of attributes_updated and the ticks of the
\* three pollers that fetch from the cloud, and the messages of Home
\* Assistant on its status topic.
FacetTicks == 2
FacetMsgs == 1

FacetProfiles == SUBSET {"highVoltageBatterySupported", "carLocatorSupported"}
FacetPollers == {"statusCloud", "chargeLocation", "position"}

InitFacets ==
    /\ cars = [v \in VIds |-> IF v = "A" THEN 1 ELSE 0]
    /\ objs = <<[NewCar("A") EXCEPT !.listening = TRUE]>>
    /\ subscribed = {hassTopic} \cup TopicsOf({"A"})
    /\ haDiscovered = {}
    /\ flag = FALSE
    /\ tasks = SetToBag(construct(1))
    /\ left = Budget(0, FacetMsgs, FacetTicks)
    /\ ev = Quiet("init", 0)

NextFacets ==
    \/ AttributesResponse(FacetProfiles)
    \/ StatusResponse
    \/ ChargeLocationsResponse
    \/ PositionResponse
    \/ \E which \in FacetPollers : Tick(which)
    \/ Message({hassTopic})

SpecFacets == InitFacets /\ [][NextFacets]_vars

----------------------------------------------------------------------------
(* Claims *)

\* the actions whose then-callback asks the car for a status refresh
CarRefreshing == Actions \ {"delayCharging"}

\* C1: for every k in 1..15, when the first k-1 poll responses of an
\* invocation are non-terminal and the k-th is 'Successful', exactly k polls
\* are issued (no invocation that has seen 'Successful' is still polling) and
\* the invocation resolves with true.
C1_SuccessfulAtPollK ==
    /\ \A t \in InFlight : t.term # "Successful"
    /\ ev.res.term = "Successful" =>
          /\ ev.res.polls = ev.res.nonTerm + 1
          /\ ev.res.polls \in 1..MaxPolls
          /\ ev.res.outcome = "true"

\* C1 witness: an invocation resolves on 'Successful' at its 15th poll
C1_Witness ==
    /\ ev.res.term = "Successful"
    /\ ev.res.polls = MaxPolls
    /\ ev.res.nonTerm = MaxPolls - 1

\* C2 (as claimed): when startCharging, lock, unlock, startHeater, stopHeater,
\* startPreclimatization or stopPreclimatization ends with 'Failed' or with
\* the attempt budget exhausted, no status refresh is triggered (no cloud
\* call is issued by the step, nothing in flight stems from the failed
\* action) and no status update or publication stems from it.
C2_FailureTriggersNothing ==
    /\ (ev.res.action \in CarRefreshing /\ ev.res.term \in {"Failed", "exhausted"})
          => ev.calls = {}
    /\ \A t \in InFlight : t.origin # "failedAction"
    /\ ev.origin # "failedAction"

\* C3 (as claimed): the subscribed command topics are exactly those of the
\* vehicles of the current listing, and no vehicle object of an id that has
\* left the account still carries App's listeners.
C3_SubscriptionsFollowFleet ==
    /\ subscribed \ {hassTopic} = TopicsOf(Known)
    /\ \A o \in DOMAIN objs : objs[o].listening => objs[o].vehicleId \in Known

\* C4 (as claimed): a fleet refresh keeps, for every id in both the previous
\* set and the new listing, the same vehicle object with its cache intact,
\* and starts no fetch for it.
C4_KeptVehicleNotRecreated ==
    [][ev'.op = "updateVehicles" =>
          \A v \in VIds :
              (cars[v] # 0 /\ cars'[v] # 0) =>
                  /\ cars'[v] = cars[v]
                  /\ objs'[cars'[v]] = objs[cars[v]]
                  /\ \A c \in ev'.calls : c.vid # v]_vars

\* C5 (as claimed): a command message whose topic names an unknown action or
\* a vehicle id that is not in the fleet causes no cloud call and no
\* exception escapes the message handler.
C5_UnknownCommandDropped ==
    (/\ ev.op = "message"
     /\ ev.msg[1] # hassTopic
     /\ (ev.msg[1][3] \notin Commands \/ cars[ev.msg[1][2]] = 0))
        => (ev.calls = {} /\ ev.escaped = "none")

\* C6 (as claimed): a delayCharging command whose payload is not parsable
\* JSON causes no cloud call and no exception escapes the message handler.
C6_UnparsablePayloadDropped ==
    (/\ ev.op = "message"
     /\ ev.msg[1] # hassTopic
     /\ ev.msg[1][3] = "delayCharging"
     /\ ev.msg[2] = "notJSON")
        => (ev.calls = {} /\ ev.escaped = "none")

\* C7: when all 15 poll responses of an invocation are non-terminal, exactly
\* 15 polls are issued (no invocation with 15 non-terminal responses is still
\* polling), the invocation resolves with false and the success flag is
\* false once it has resolved.
C7_ExhaustedAfter15 ==
    /\ \A t \in InFlight : t.nonTerm < MaxPolls /\ t.polls <= MaxPolls
    /\ ev.res.term = "exhausted" =>
          /\ ev.res.polls = MaxPolls
          /\ ev.res.nonTerm = MaxPolls
          /\ ev.res.outcome = "false"
          /\ flag = FALSE

\* C7 witness: an invocation of a command resolves after 15 non-terminal
\* responses
C7_Witness ==
    /\ ev.res.term = "exhausted"
    /\ ev.res.nonTerm = MaxPolls
    /\ ev.res.action \in Actions

\* C8 (as claimed): when the attempt budget is exhausted the invoker logs
\* that no status was obtained and reports an outcome distinct from the one
\* of an explicit 'Failed' (which resolves with false).
C8_TimeoutLoggedAndDistinct ==
    ev.res.term = "exhausted" =>
        /\ "didn't get a status back" \in ev.logs
        /\ ev.res.outcome # "false"

\* C9: for every k in 1..15, when the k-th poll response is 'Failed' (the
\* earlier ones non-terminal), polling stops right after that poll (exactly k
\* polls, no invocation that has seen 'Failed' is still polling) and the
\* invocation does not resolve with success.
C9_FailedAtPollK ==
    /\ \A t \in InFlight : t.term # "Failed"
    /\ ev.res.term = "Failed" =>
          /\ ev.res.polls = ev.res.nonTerm + 1
          /\ ev.res.polls \in 1..MaxPolls
          /\ ev.res.outcome = "false"

\* C9 witness: 'Failed' arrives at the second poll of an invocation
C9_Witness ==
    /\ ev.res.term = "Failed"
    /\ ev.res.polls = 2
    /\ ev.res.nonTerm = 1

\* C10: an error during the submission or during a poll ends the invocation
\* in that very step: its task leaves the set of calls in flight and none is
\* added (no further poll, no second submission), the promise is rejected and
\* the failure branch of the caller runs (it logs; no refresh is started, the
\* cache is not touched).
C10_ErrorAborts ==
    [][ev'.res.term \in {"submitError", "pollError"} =>
          /\ ev'.res.outcome = "rejected"
          /\ ev'.calls = {}
          /\ "failed" \in ev'.logs
          /\ BagCardinality(tasks') = BagCardinality(tasks) - 1
          /\ objs' = objs]_vars

\* C10 witness: a poll other than the first one fails
C10_Witness ==
    /\ ev.res.term = "pollError"
    /\ ev.res.polls > 1
    /\ ev.res.outcome = "rejected"

\* the cloud calls of the vehicle whose invocation the last step settled
StatusCall == [call |-> "status", action |-> "none", vid |-> objs[ev.obj].vehicleId]
RefreshCall == [call |-> "submit", action |-> refresh, vid |-> objs[ev.obj].vehicleId]

\* C11: when the answer to the submission of an action that requires polling
\* carries no invocation id, the invocation is rejected in that very step
\* with no poll issued and no call started, and nothing waits or polls for
\* an invocation without an id.
C11_MissingIdRejected ==
    /\ \A t \in InFlight : t.serviceId # "missing"
    /\ ev.res.term = "noServiceId" =>
          /\ ev.op = "rejected"
          /\ ev.res.outcome = "rejected"
          /\ ev.res.polls = 0
          /\ ev.calls = {}

\* C11 witness: the submission of a lock is answered without an id
C11_Witness ==
    /\ ev.res.term = "noServiceId"
    /\ ev.res.action = "lock"
    /\ ev.op = "rejected"

\* C12: a delayCharging submission is never rejected for a missing service
\* reference; when its answer names no service the invocation resolves in
\* that very step with the answer itself, no poll is issued, and the
\* caller's success path starts the cloud status fetch.
C12_ImmediateResult ==
    /\ ev.res.action = "delayCharging" => ev.res.term # "noServiceId"
    /\ ev.res.term = "immediate" =>
          /\ ev.res.action = "delayCharging"
          /\ ev.op = "resolved"
          /\ ev.res.outcome = "status"
          /\ ev.res.polls = 0
          /\ ev.calls = {StatusCall}

\* C12 witness: a delayCharging command resolves on the answer to its
\* submission
C12_Witness ==
    /\ ev.res.term = "immediate"
    /\ ev.res.origin = "command"
    /\ ev.calls = {StatusCall}

\* car-side refreshes in flight that a successful action has asked for
RefreshesAfterOk(bag) ==
    LET S == {t \in BagToSet(bag) :
                t.kind = "submit" /\ t.action = refresh /\ t.origin = "okAction"}
    IN  BagCardinality([t \in S |-> bag[t]])

\* C13: when startCharging, lock, unlock, startHeater, stopHeater,
\* startPreclimatization or stopPreclimatization completes with 'Successful',
\* the step that resolves the invocation starts exactly one car-side status
\* refresh, for that vehicle; and such a refresh is started by no other step.
C13_OneCarRefreshOnSuccess ==
    [][/\ (ev'.res.action \in CarRefreshing /\ ev'.res.term = "Successful") =>
            /\ ev'.op = "resolved"
            /\ RefreshesAfterOk(tasks') = RefreshesAfterOk(tasks) + 1
            /\ ev'.calls = {[call |-> "submit", action |-> refresh,
                             vid |-> objs'[ev'.obj].vehicleId]}
       /\ RefreshesAfterOk(tasks') > RefreshesAfterOk(tasks) =>
            /\ ev'.op = "resolved"
            /\ ev'.res.action \in CarRefreshing
            /\ ev'.res.term = "Successful"]_vars

\* C13 witness: an unlock has completed with 'Successful' and its refresh is
\* in flight
C13_Witness ==
    /\ ev.res.action = "unlock"
    /\ ev.res.term = "Successful"
    /\ ev.calls = {RefreshCall}
    /\ RefreshesAfterOk(tasks) = 1

\* C14: when delayCharging succeeds (polled to 'Successful', or answered
\* at once), the step that resolves it starts the cloud status fetch and no
\* car-side refresh; the answer to a status fetch starts no call at all.
C14_DelayChargingFetchesCloud ==
    /\ (ev.res.action = "delayCharging" /\ ev.res.term \in {"Successful", "immediate"})
          => ev.calls = {StatusCall}
    /\ ev.op = "status" => ev.calls = {}

\* C14 witness: a delayCharging invocation polled to 'Successful'
C14_Witness ==
    /\ ev.res.action = "delayCharging"
    /\ ev.res.term = "Successful"
    /\ ev.res.polls > 0
    /\ ev.calls = {StatusCall}

\* C15: the step that settles a car-side refresh starts a cloud status fetch
\* if and only if the refresh ended 'Successful'; after an error, 'Failed' or
\* the exhausted budget it starts no call; in either case the step leaves
\* the cached status as it was.
C15_CloudFetchIffRefreshSucceeded ==
    [][ev'.res.action = refresh =>
          /\ objs' = objs
          /\ ev'.res.term = "Successful" =>
                ev'.calls = {[call |-> "status", action |-> "none",
                              vid |-> objs'[ev'.obj].vehicleId]}
          /\ ev'.res.term # "Successful" => ev'.calls = {}]_vars

\* C15 witness: a car-side refresh has ended 'Failed' and no fetch follows
C15_Witness ==
    /\ ev.res.action = refresh
    /\ ev.res.term = "Failed"
    /\ ev.calls = {}
    /\ \A t \in InFlight : t.kind # "status"

\* the steps in which updateDistances runs: VocCar listens to both events
DistanceTriggers == {"position_updated", "charge_locations_updated"}

\* C16: for every vehicle object whose cached attributes do not declare
\* charging support (attributes never fetched included), no charge-location
\* call is in flight whatever has triggered getVehicleChargeLocations (the
\* timer, attributes_updated), its chargeLocations are still the empty ones
\* of construction, and no step has raised charge_locations_updated for it.
C16_NoChargeLocationsWithoutCharging ==
    \A o \in DOMAIN objs :
        "highVoltageBatterySupported" \notin objs[o].attributes.caps =>
            /\ \A t \in InFlight : ~(t.kind = "chargeLocations" /\ t.obj = o)
            /\ objs[o].chargeLocations = {}
            /\ ~(ev.obj = o /\ "charge_locations_updated" \in ev.emitted)

\* C16 witness: the charge-location timer has fired for a fleet whose
\* vehicle has its attributes and lacks charging support; no call was issued
C16_Witness ==
    /\ ev.op = "chargeLocation"
    /\ ev.calls = {}
    /\ cars["A"] # 0
    /\ objs[cars["A"]].attributes.loaded
    /\ "highVoltageBatterySupported" \notin objs[cars["A"]].attributes.caps

\* C17: no position call is ever in flight for a vehicle object whose
\* attributes do not declare the locator, whichever trigger has fired (the
\* position timer, the attributes_updated cascade), and no position answer
\* is ever handled for it.
C17_NoPositionWithoutLocator ==
    \A o \in DOMAIN objs :
        "carLocatorSupported" \notin objs[o].attributes.caps =>
            /\ \A t \in InFlight : ~(t.kind = "position" /\ t.obj = o)
            /\ objs[o].position = NoPosition
            /\ ~(ev.obj = o /\ "position_updated" \in ev.emitted)

\* C17 witness: the position timer has fired for a fleet whose vehicle has
\* its attributes and lacks the locator; no call was issued
C17_Witness ==
    /\ ev.op = "position"
    /\ ev.obj = 0
    /\ ev.calls = {}
    /\ cars["A"] # 0
    /\ objs[cars["A"]].attributes.loaded
    /\ "carLocatorSupported" \notin objs[cars["A"]].attributes.caps

\* C18: after every step in which updateDistances has run (a position or a
\* charge-location answer was stored) with a usable position and at least
\* one charge location cached, the distances list has exactly one entry per
\* cached charge location: as many entries as locations, and the same ids.
C18_OneDistancePerLocation ==
    (/\ ev.emitted \cap DistanceTriggers # {}
     /\ PositionValid(objs[ev.obj].position)
     /\ objs[ev.obj].chargeLocations # {})
        => LET car == objs[ev.obj]
           IN  /\ Len(car.distances) = Cardinality(car.chargeLocations)
               /\ {car.distances[i] : i \in DOMAIN car.distances} = car.chargeLocations
               /\ "distances_updated" \in ev.emitted

\* C18 witness: a position answer is stored while a charge location is cached
C18_Witness ==
    /\ "position_updated" \in ev.emitted
    /\ PositionValid(objs[ev.obj].position)
    /\ objs[ev.obj].chargeLocations = {1}
    /\ objs[ev.obj].distances = <<1>>

\* C19 (as claimed): a step in which updateDistances runs without a usable
\* position, or with no charge location cached, leaves the distances list
\* as it was and raises no distances_updated.
C19_NoOpWithoutBoth ==
    [][(/\ ev'.emitted \cap DistanceTriggers # {}
        /\ \/ ~PositionValid(objs'[ev'.obj].position)
           \/ objs'[ev'.obj].chargeLocations = {})
          => /\ objs'[ev'.obj].distances = objs[ev'.obj].distances
             /\ "distances_updated" \notin ev'.emitted]_vars

\* C20: every successful status fetch leaves the cached status equal to the
\* cloud's answer, whatever was cached before (so a second fetch with the
\* same answer leaves the same status), changes no other field of the
\* vehicle, and raises status_updated.
C20_StatusReplacedWholesale ==
    [][ev'.op = "status" =>
          /\ objs'[ev'.obj].status = ev'.data
          /\ objs'[ev'.obj] = [objs[ev'.obj] EXCEPT !.status = ev'.data]
          /\ ev'.prev = objs[ev'.obj].status
          /\ "status_updated" \in ev'.emitted]_vars

\* C20 witness: the second of two successive fetches with the same answer
C20_Witness ==
    /\ ev.op = "status"
    /\ ev.prev # NoStatus
    /\ ev.data = ev.prev
    /\ objs[ev.obj].status = ev.data
    /\ "status_updated" \in ev.emitted

\* the heater command of the last step: the action the capabilities of the
\* addressed vehicle call for
HeaterCalls(on, off) ==
    LET car == objs[cars[ev.msg[1][2]]]
        action == IF ev.msg[2] = "ON" THEN on ELSE off
    IN  {[call |-> "submit", action |-> action, vid |-> car.vehicleId]}

\* C21: a heater command ON (OFF) for a vehicle of the fleet submits
\* startHeater (stopHeater) if the vehicle's attributes declare the remote
\* heater; otherwise startPreclimatization (stopPreclimatization) if they
\* declare preclimatization; and no cloud call at all if they declare
\* neither, attributes not yet loaded included.
C21_HeaterDispatchGated ==
    (/\ ev.op = "message"
     /\ ev.msg[1] # hassTopic
     /\ ev.msg[1][3] = "heater"
     /\ ev.msg[2] \in {"ON", "OFF"}
     /\ cars[ev.msg[1][2]] # 0)
        => LET caps == objs[cars[ev.msg[1][2]]].attributes.caps
           IN  /\ ev.escaped = "none"
               /\ ev.calls =
                     IF "remoteHeaterSupported" \in caps
                     THEN HeaterCalls("startHeater", "stopHeater")
                     ELSE IF "preclimatizationSupported" \in caps
                          THEN HeaterCalls("startPreclimatization",
                                           "stopPreclimatization")
                          ELSE {}

\* C21 witness: heater OFF for a vehicle that declares both capabilities
\* has submitted stopHeater
C21_Witness ==
    /\ ev.op = "message"
    /\ ev.msg = <<(<<"volvooncall", "A", "heater">>), "OFF">>
    /\ objs[1].attributes.caps =
         {"remoteHeaterSupported", "preclimatizationSupported"}
    /\ ev.calls = {[call |-> "submit", action |-> "stopHeater", vid |-> "A"]}

\* a delayCharging command with a JSON payload, for a vehicle of the fleet
DelayChargingHandled ==
    /\ ev.op = "message"
    /\ ev.msg[1] # hassTopic
    /\ ev.msg[1][3] = "delayCharging"
    /\ ev.msg[2] # "notJSON"
    /\ cars[ev.msg[1][2]] # 0

\* C24 (as claimed): the delay-charging request carries enabled equal to the
\* command's delayedCharging when the command supplies it (true or false)
\* and true when the command omits it, and is addressed to the charge
\* location the command names.
C24_EnabledAsCommanded ==
    DelayChargingHandled =>
        LET params == JSONparse(ev.msg[2])
        IN  /\ ev.req.enabled = IF params.delayedCharging = "undefined"
                                THEN "true" ELSE params.delayedCharging
            /\ ev.req.location = params.chargeLocation

\* C25 (as claimed): the command the README documents, with the fields
\* chargingLocation, startTime and endTime, gives a request addressed to
\* that location and carrying that start time and that end time.
C25_ReadmePayloadHonoured ==
    (DelayChargingHandled /\ ev.msg[2] = "jsonReadme") =>
        /\ ev.req.location = "1"
        /\ ev.req.startTime = "00:00"
        /\ ev.req.stopTime = "06:00"

\* status and attributes non-empty and, with charging support, a charge
\* location cached
Ready(car) ==
    /\ car.status # NoStatus
    /\ car.attributes.loaded
    /\ "highVoltageBatterySupported" \in car.attributes.caps
          => car.chargeLocations # {}

DiscoveryPublished == \E p \in ev.pubs : p.facet = "discovery"

\* the events App answers with hassMqttDiscovery
DiscoveryTriggers ==
    {"attributes_updated", "status_updated", "charge_locations_updated"}

\* C22: a step publishes discovery configuration only for the vehicle whose
\* update it has handled, and only if that vehicle is ready at that moment:
\* status and attributes non-empty and, if it supports charging, at least
\* one charge location cached.
C22_DiscoveryOnlyWhenReady ==
    \A p \in ev.pubs :
        p.facet = "discovery" =>
            /\ ev.obj # 0
            /\ p.vid = objs[ev.obj].vehicleId
            /\ Ready(objs[ev.obj])

\* C22 witness: discovery is published on the charge locations of a vehicle
\* that supports charging
C22_Witness ==
    /\ DiscoveryPublished
    /\ "charge_locations_updated" \in ev.emitted
    /\ "highVoltageBatterySupported" \in objs[ev.obj].attributes.caps
    /\ objs[ev.obj].chargeLocations # {}

HassMessage == ev.op = "message" /\ ev.msg[1] = hassTopic

\* C23 (amended): a message on the Home Assistant status topic clears the
\* whole discovery registry and republishes every facet of every known
\* vehicle in that step, and starts no cloud call; discovery configuration
\* is not published by that step: it is published again for a vehicle at
\* its next attributes, status or charge-location update at which it is
\* ready, after which the vehicle is in the registry.
C23_HassReloadRepublishes ==
    /\ HassMessage =>
          /\ haDiscovered = {}
          /\ ev.calls = {}
          /\ ~DiscoveryPublished
          /\ ev.pubs = UNION {publishAttributes(objs[cars[v]])
                                \cup publishStatus(objs[cars[v]])
                                \cup publishChargeLocations(objs[cars[v]])
                                \cup publishPosition(objs[cars[v]]) : v \in Known}
    /\ (/\ ev.obj # 0
        /\ ev.emitted \cap DiscoveryTriggers # {}
        /\ objs[ev.obj].listening
        /\ Ready(objs[ev.obj]))
          => objs[ev.obj].vehicleId \in haDiscovered

\* C23 (as claimed): the step that handles the message publishes discovery
\* configuration again for every ready vehicle.
C23_RediscoveryAtOnce ==
    HassMessage =>
        \A v \in Known :
            Ready(objs[cars[v]]) =>
                \E p \in ev.pubs : p.facet = "discovery" /\ p.vid = v

\* C23 witness: the message has been handled, and a status update of a
\* vehicle that was ready before it (status cached, attributes loaded, no
\* charging support) publishes the discovery configuration again
C23_Witness ==
    /\ left.msg < FacetMsgs
    /\ ev.op = "status"
    /\ ev.prev # NoStatus
    /\ objs[ev.obj].attributes.loaded
    /\ "highVoltageBatterySupported" \notin objs[ev.obj].attributes.caps
    /\ DiscoveryPublished

\* what the catch of a failed facet fetch logs
FacetFailures ==
    {"update attributes failed", "status from cloud failed",
     "charge locations update failed", "positions failed"}

\* C26: the step that handles the failure of a facet fetch (attributes,
\* status, charge locations, position) leaves every cached facet of every
\* vehicle and the discovery registry unchanged, raises no event, publishes
\* nothing, starts no call, and no exception leaves it: it only logs.
C26_FetchFailureContained ==
    [][ev'.op \in FacetFailures =>
          /\ objs' = objs
          /\ haDiscovered' = haDiscovered
          /\ ev'.emitted = {}
          /\ ev'.pubs = {}
          /\ ev'.calls = {}
          /\ ev'.escaped = "none"
          /\ ev'.logs = {ev'.op}
          /\ BagCardinality(tasks') = BagCardinality(tasks) - 1]_vars

\* C26 witness: a status fetch fails while a status is cached
C26_Witness ==
    /\ ev.op = "status from cloud failed"
    /\ objs[ev.obj].status # NoStatus
    /\ ev.pubs = {}

\* C30: a step that stores fetched attributes starts a charge-location fetch
\* exactly if the stored attributes declare charging support and a position
\* fetch exactly if they declare the locator; a step that stores a position
\* or charge locations recomputes the distances once: with a usable
\* position the list is the one of the cached locations and
\* distances_updated is raised, without one the list is left as it was.
C30_ReactiveWiring ==
    [][/\ "attributes_updated" \in ev'.emitted =>
            LET car == objs'[ev'.obj]
                fetch(kind) == [call |-> kind, action |-> "none",
                                vid |-> car.vehicleId]
            IN  ev'.calls =
                  (IF "highVoltageBatterySupported" \in car.attributes.caps
                   THEN {fetch("chargeLocations")} ELSE {})
                  \cup (IF "carLocatorSupported" \in car.attributes.caps
                        THEN {fetch("position")} ELSE {})
       /\ ev'.emitted \cap DistanceTriggers # {} =>
            LET car == objs'[ev'.obj]
            IN  IF PositionValid(car.position)
                THEN /\ car.distances = keys(car.chargeLocations)
                     /\ "distances_updated" \in ev'.emitted
                ELSE /\ car.distances = objs[ev'.obj].distances
                     /\ "distances_updated" \notin ev'.emitted]_vars

\* C30 witness: attributes that declare both capabilities have been stored
\* and both fetches started
C30_Witness ==
    /\ "attributes_updated" \in ev.emitted
    /\ objs[ev.obj].attributes.caps =
         {"highVoltageBatterySupported", "carLocatorSupported"}
    /\ Cardinality(ev.calls) = 2

\* C27: a step of one vehicle (the answer to one of its fetches, a step of
\* one of its invocations) leaves every other vehicle's object as it was,
\* and the handling of a command message changes no vehicle's object
C27_OtherVehiclesUntouched ==
    [][\A o \in DOMAIN objs : o # ev'.obj => objs'[o] = objs[o]]_vars

\* A's status is replaced by the fetch that follows its command while B
\* holds a different status of its own
C27_Witness ==
    /\ ev.op = "status"
    /\ ev.obj = 1
    /\ ev.origin # "construct"
    /\ ev.data # ev.prev
    /\ objs[2].status # NoStatus
    /\ objs[2].status # objs[1].status

\* the step that serves the request u
Answer(u) ==
    CASE u.kind = "status" -> StatusResponse /\ ev'.obj = u.obj
      [] u.kind = "submit" -> SubmitResponse /\ ev'.obj = u.obj
      [] u.kind = "wait" -> WaitElapsed /\ ev'.obj = u.obj
      [] u.kind = "poll" -> PollResponse /\ ev'.obj = u.obj
      [] OTHER -> FALSE

PollLoops == {t \in BagToSet(tasks) : t.kind \in {"wait", "poll"}}

\* C28: while an invocation of one vehicle is in its poll loop, a message
\* that arrives is handled and every request of another vehicle can be
\* served, at once and without waiting for the loop to end
C28_PollingDoesNotBlock ==
    \A t \in PollLoops :
        /\ left.msg > 0 => ENABLED Message(PairTopics)
        /\ \A u \in BagToSet(tasks) : u.obj # t.obj => ENABLED Answer(u)

\* B's status fetch has been answered while A's invocation, polled at
\* least once, is still in its loop
C28_Witness ==
    /\ ev.op = "status"
    /\ ev.obj = 2
    /\ ev.emitted = {"status_updated"}
    /\ \E t \in PollLoops : t.obj = 1 /\ t.counter >= 1

\* the vehicle objects a tick of the timer op must reach: the objects of the
\* vehicles of the latest listing, for the position timer those whose
\* attributes declare the locator; a charge-location refresh asks the cloud
\* only for vehicles with charging support (C16)
TickTargets(op) ==
    LET F == {cars[v] : v \in VIds} \ {0}
    IN  CASE op = "chargeLocation" ->
               {o \in F : "highVoltageBatterySupported" \in objs[o].attributes.caps}
          [] op = "position" ->
               {o \in F : "carLocatorSupported" \in objs[o].attributes.caps}
          [] OTHER -> F

TickKind(op) ==
    CASE op = "statusCar" -> "submit"
      [] op = "statusCloud" -> "status"
      [] op = "chargeLocation" -> "chargeLocations"
      [] OTHER -> "position"

TickAction(op) == IF op = "statusCar" THEN refresh ELSE "none"

\* C29: a tick of any of the four timers starts its operation once for each
\* vehicle object of the fleet as listed last (the position fetch only for
\* those with the locator), and for no other object: the requests added and
\* the cloud calls made are exactly those
C29_TickCoversCurrentFleet ==
    [][left'.tick < left.tick =>
          /\ tasks' = tasks (+) SetToBag({Task(TickKind(ev'.op), o, TickAction(ev'.op), "timer")
                                            : o \in TickTargets(ev'.op)})
          /\ ev'.calls = {[call |-> TickKind(ev'.op), action |-> TickAction(ev'.op),
                            vid |-> objs[o].vehicleId] : o \in TickTargets(ev'.op)}]_vars

\* a status timer has fired after a listing that dropped A and brought in B:
\* B is asked for, A is not
C29_Witness ==
    /\ ev.op \in {"statusCar", "statusCloud"}
    /\ ev.obj = 0
    /\ cars["A"] = 0
    /\ cars["B"] # 0
    /\ \E o \in DOMAIN objs : objs[o].vehicleId = "A"
    /\ {c.vid : c \in ev.calls} = {"B"}

\* C31: with two invocations in flight on the one client, an invocation
\* that leaves its poll loop resolves with true exactly when the terminal
\* status its own polls brought is Successful, and the success flag is never
\* left set for another invocation to read
C31_OwnOutcomeUnderSharing ==
    /\ flag = FALSE
    /\ (ev.op = "resolved" /\ ev.res.term \in {"Successful", "Failed", "exhausted"}) =>
          (ev.res.outcome = "true" <=> ev.res.term = "Successful")

\* the lock command has failed after the timer's refresh had succeeded (its
\* status fetch is still in flight): the success did not carry over
C31_Witness ==
    /\ ev.op = "resolved"
    /\ ev.res.action = "lock"
    /\ ev.res.term = "Failed"
    /\ ev.res.outcome = "false"
    /\ \E t \in BagToSet(tasks) : t.kind = "status" /\ t.origin = "timer"

\* C32: a poll is issued only when an interval wait of the same invocation
\* has elapsed, it is at most the 15th of its invocation, and the invocation
\* has seen neither Successful nor Failed; an interval wait is set only for
\* an invocation without a terminal status, one more than it has polls
C32_PollsBoundedAndSpaced ==
    [][\A t \in BagToSet(tasks') \ BagToSet(tasks) :
          /\ t.kind = "poll" =>
                /\ t.polls <= MaxPolls
                /\ t.term = "none"
                /\ \E u \in BagToSet(tasks) :
                      /\ u.kind = "wait"
                      /\ t = [u EXCEPT !.kind = "poll", !.polls = @ + 1]
                      /\ ev'.calls = {Call(t, objs)}
          /\ t.kind = "wait" =>
                /\ t.term = "none"
                /\ t.counter <= MaxPolls
                /\ t.polls = t.counter - 1]_vars

\* the 15th poll of an invocation has just been issued
C32_Witness ==
    /\ ev.op = "poll"
    /\ \E t \in BagToSet(tasks) :
          t.kind = "poll" /\ t.polls = MaxPolls /\ t.nonTerm = MaxPolls - 1

\* an invocation of action a for object o is under way
Invoking(o, a) ==
    \E t \in BagToSet(tasks) :
        t.kind \in {"submit", "wait", "poll"} /\ t.obj = o /\ t.action = a

\* C33: when every cloud call is answered and every interval elapses, each
\* invocation under way is eventually over (resolved or rejected), whatever
\* the polls bring
C33_InvocationEnds ==
    \A o \in {1, 2} : \A a \in {"lock", refresh} :
        Invoking(o, a) ~> ~Invoking(o, a)

\* the refresh that follows a failed lock has itself run out of attempts
\* without a terminal status, and no invocation is left under way
C33_Witness ==
    /\ ev.op = "resolved"
    /\ ev.res.action = refresh
    /\ ev.res.origin = "failedAction"
    /\ ev.res.term = "exhausted"
    /\ \A t \in BagToSet(tasks) : t.kind \notin {"submit", "wait", "poll"}

\* the operation a request belongs to: the action of an invocation, the
\* facet of a fetch
OpOf(t) ==
    IF t.kind \in {"submit", "wait", "poll"} THEN <<t.obj, t.action>>
    ELSE <<t.obj, t.kind>>

\* the operation that failed in the step just taken (<<0, "none">>: none did)
FailedOp ==
    CASE ev.op = "update attributes failed" -> <<ev.obj, "attributes">>
      [] ev.op = "status from cloud failed" -> <<ev.obj, "status">>
      [] ev.op = "charge locations update failed" -> <<ev.obj, "chargeLocations">>
      [] ev.op = "positions failed" -> <<ev.obj, "position">>
      [] ev.op = "rejected" -> <<ev.obj, ev.res.action>>
      [] ev.op = "resolved" /\ ev.res.outcome = "false" -> <<ev.obj, ev.res.action>>
      [] OTHER -> <<0, "none">>

\* C34: the step in which a fetch fails, or an invocation is rejected or
\* resolves with false, starts no request for the operation that failed; a
\* failed fetch and a rejected invocation start no cloud call at all
C34_NoAutomaticRetry ==
    [][FailedOp' # <<0, "none">> =>
          /\ \A t \in BagToSet(tasks') \ BagToSet(tasks) : OpOf(t) # FailedOp'
          /\ \A c \in ev'.calls :
                ~(c.vid = objs[ev'.obj].vehicleId /\ FailedOp'[2] \in {c.call, c.action})
          /\ ev'.op # "resolved" => ev'.calls = {} /\ BagToSet(tasks') \subseteq BagToSet(tasks)]_vars

\* the timer's car-side refresh has failed and nothing is in flight for
\* that vehicle any more
C34_Witness ==
    /\ ev.op = "resolved"
    /\ ev.res.action = refresh
    /\ ev.res.origin = "timer"
    /\ ev.res.term = "Failed"
    /\ ev.calls = {}
    /\ \A t \in BagToSet(tasks) : t.obj # ev.obj

\* the status fetches of object o in flight, as a bag
StatusFetches(bag, o) ==
    [t \in {u \in BagToSet(bag) : u.kind = "status" /\ u.obj = o} |-> CopiesIn(t, bag)]

\* C35: whatever other status fetches of the same vehicle are in flight,
\* and whichever trigger issued the one answered, a successful answer
\* becomes the cached status as it is, raises status_updated and nothing
\* else, and takes exactly its own request out of flight; so once all have
\* been answered the cache holds the answer delivered last
C35_LastAnswerWins ==
    [][(ev'.op = "status" /\ ev'.emitted # {}) =>
          /\ objs'[ev'.obj].status = ev'.data
          /\ ev'.emitted = {"status_updated"}
          /\ \E t \in BagToSet(tasks) :
                /\ t.kind = "status" /\ t.obj = ev'.obj /\ t.origin = ev'.origin
                /\ StatusFetches(tasks', ev'.obj) (+) SetToBag({t})
                      = StatusFetches(tasks, ev'.obj)]_vars

\* two status fetches of A were in flight, the timer's issued first; the
\* one that followed the command has been answered first and has changed
\* the cache, the timer's is still to come
C35_Witness ==
    /\ ev.op = "status"
    /\ ev.obj = 1
    /\ ev.origin = "okAction"
    /\ ev.data # ev.prev
    /\ \E t \in BagToSet(tasks) : t.kind = "status" /\ t.obj = 1 /\ t.origin = "timer"

\* the step just taken has published the discovery configuration of v
DiscoveryOf(v) == \E p \in ev.pubs : p.facet = "discovery" /\ p.vid = v

\* C36: a step publishes the discovery configuration of a vehicle id only
\* if the id is not in the registry, and enters it; an id enters the
\* registry only in a step that publishes its discovery; an id leaves the
\* registry only when a message on the Home Assistant status topic is
\* handled.  Hence at most one publication per id between two such messages
C36_DiscoveryOncePerClear ==
    [][\A v \in VIds :
          /\ DiscoveryOf(v)' => v \notin haDiscovered /\ v \in haDiscovered'
          /\ (v \in haDiscovered' /\ v \notin haDiscovered) => DiscoveryOf(v)'
          /\ (v \in haDiscovered /\ v \notin haDiscovered') =>
                ev'.op = "message" /\ ev'.msg[1] = hassTopic]_vars

\* a further status update of a ready vehicle that is in the registry has
\* been handled: its status is published, its discovery is not
C36_Witness ==
    /\ ev.op = "status"
    /\ ev.emitted = {"status_updated"}
    /\ ev.prev # NoStatus
    /\ Ready(objs[ev.obj])
    /\ objs[ev.obj].vehicleId \in haDiscovered
    /\ ~DiscoveryOf(objs[ev.obj].vehicleId)
    /\ ev.pubs # {}

\* C37: no step publishes on the topics of a vehicle that the latest listing
\* has omitted
C37_RemovedVehicleSilent ==
    \A p \in ev.pubs : cars[p.vid] # 0

\* the attributes of object o have not arrived and no fetch of them is in
\* flight (in the bag of requests given)
WithoutAttributes(O, bag, o) ==
    /\ ~O[o].attributes.loaded
    /\ \A t \in BagToSet(bag) : ~(t.kind = "attributes" /\ t.obj = o)

\* C38: only the application of a listing starts an attributes fetch; and
\* for a vehicle object whose attributes have not arrived and are not being
\* fetched, after any step: the capability set is empty, no charge-location
\* and no position fetch is in flight, the object is not ready and the step
\* has published no discovery for it
C38_AttributesOnlyAtConstruction ==
    [][/\ \A t \in BagToSet(tasks') \ BagToSet(tasks) :
             t.kind = "attributes" => ev'.op = "updateVehicles"
       /\ \A o \in DOMAIN objs' :
             WithoutAttributes(objs', tasks', o) =>
                /\ objs'[o].attributes.caps = {}
                /\ \A t \in BagToSet(tasks') :
                      t.obj = o => t.kind \notin {"chargeLocations", "position"}
                /\ ~Ready(objs'[o])
                /\ ev'.obj = o => \A p \in ev'.pubs : p.facet # "discovery"]_vars

\* the attributes fetch of A's constructor has failed, and the timers have
\* since fired, the last of them for the charge locations or the position:
\* it asked for nothing
C38_Witness ==
    /\ ev.op \in {"chargeLocation", "position"}
    /\ ev.obj = 0
    /\ ev.calls = {}
    /\ left.tick = 0
    /\ cars["A"] # 0
    /\ WithoutAttributes(objs, tasks, cars["A"])
    /\ objs[cars["A"]].status # NoStatus

\* C39: a vehicle object that has a charge-location or a position fetch in
\* flight, or a charge location or a position cached, has its attributes
C39_AttributesFirst ==
    \A o \in DOMAIN objs :
        (\/ \E t \in BagToSet(tasks) :
                t.obj = o /\ t.kind \in {"chargeLocations", "position"}
         \/ objs[o].chargeLocations # {}
         \/ objs[o].position # NoPosition)
            => objs[o].attributes.loaded

\* the attributes have just arrived and the first charge-location or
\* position fetch of the object has been issued by the cascade
C39_Witness ==
    /\ ev.op = "attributes"
    /\ ev.emitted = {"attributes_updated"}
    /\ ev.calls # {}
    /\ \A c \in ev.calls : c.call \in {"chargeLocations", "position"}
    /\ objs[ev.obj].chargeLocations = {}
    /\ objs[ev.obj].position = NoPosition

\* C40: the step that applies a listing publishes, for every listed
\* vehicle, the attributes, status and position of its new object as they
\* are then: all empty
C40_ListingPublishesSnapshots ==
    ev.op = "updateVehicles" =>
        \A v \in Known :
            {Pub(objs[cars[v]], "attributes", 0),
             Pub(objs[cars[v]], "status", NoStatus),
             Pub(objs[cars[v]], "position", NoPosition)} \subseteq ev.pubs

====
